---- MODULE Spec2Model ----
(***************************************************************************)
(* Model of the OpenInput dispatch and report-framing layer                *)
(* (src/src/dispatch.rs, src/src/lib.rs, src/src/keyboard.rs).             *)
(*                                                                         *)
(* Bytes are naturals in 0..255, slices and heapless::Vec values are       *)
(* sequences, an FnvIndexMap is the sequence of its entries in insertion   *)
(* order (the order its iterator yields).  Each action is one call of an   *)
(* operation of the crate, issued while no call is running (op = "idle");  *)
(* the call's inputs and what it returned are kept in op / args / out and  *)
(* the handlers it invoked in called, until the call returns.              *)
(***************************************************************************)
EXTENDS Naturals, Integers, Sequences, FiniteSets, TLC

VARIABLES table, meta, op, args, out, called,
          built,   \* history: the dispatcher as new_raw constructed it
          kbd      \* the OiKeyboardReport of the HID class

vars == <<table, meta, op, args, out, called, built, kbd>>

----------------------------------------------------------------------------
(* Program constants *)

OPENINPUT_SHORT_REPORT_ID == 32
OPENINPUT_LONG_REPORT_ID == 33
PROTOCOL_VERSION == <<0, 0, 1>>

ERROR_FUNCTION_PAGE == 255
INFO_FUNCTION_PAGE == 0

DISPATCH_PREFIX_LEN == 3
ERROR_PREFIX_LEN == DISPATCH_PREFIX_LEN + 2
SHORT_LEN == 8
LONG_LEN == 32
DISPATCH_LONG_RET_LEN == LONG_LEN - DISPATCH_PREFIX_LEN
DISPATCH_SHORT_RET_LEN == SHORT_LEN - DISPATCH_PREFIX_LEN

INFO_VERSION == 0
INFO_FIRMWARE_INFO == 1
INFO_SUPPORTED_FUNCTION_PAGES == 2
INFO_SUPPORTED_FUNCTIONS == 3

\* capacity of both levels of the FnvIndexMap dispatch table
TABLE_CAPACITY == 8

----------------------------------------------------------------------------
(* Bounds of the model *)

\* most pages of a table whose registration orders are all enumerated
MaxPages == 3
\* longest buffer handed to OiReport::read
MaxReadLen == 33

----------------------------------------------------------------------------
(* Results *)

Ok(v) == [tag |-> "Ok", val |-> v]
Err(e) == [tag |-> "Err", err |-> e]
Panic == [tag |-> "Panic"]

InvalidValue(index) == [kind |-> "InvalidValue", index |-> index]
UnsupportedFunction == [kind |-> "UnsupportedFunction"]
Custom(ascii) == [kind |-> "Custom", ascii |-> ascii]

Some(v) == [some |-> TRUE, value |-> v]
None == [some |-> FALSE]

----------------------------------------------------------------------------
(* FnvIndexMap: entries in insertion order, keys unique *)

MapGet(m, k) ==
    IF \E i \in 1..Len(m) : m[i].key = k
    THEN Some(m[CHOOSE i \in 1..Len(m) : m[i].key = k].value)
    ELSE None

MapKeys(m) == [i \in 1..Len(m) |-> m[i].key]

Entry(k, v) == [key |-> k, value |-> v]

----------------------------------------------------------------------------
(* Slices *)

SliceFrom_exclusive(s, start) ==
    IF start >= Len(s) THEN None ELSE Some(SubSeq(s, start + 1, Len(s)))

\* slice.get(start..): None when start > len
SliceFrom(s, start) ==
    IF start > Len(s) THEN None ELSE Some(SubSeq(s, start + 1, Len(s)))

RECURSIVE MinOf(_)
MinOf(s) ==
    IF Len(s) = 1 THEN s[1]
    ELSE LET m == MinOf(Tail(s)) IN IF s[1] <= m THEN s[1] ELSE m

RemoveAt(s, i) == SubSeq(s, 1, i - 1) \o SubSeq(s, i + 1, Len(s))

\* the elements of s in ascending order
RECURSIVE Ascending(_)
Ascending(s) ==
    IF s = <<>> THEN <<>>
    ELSE LET m == MinOf(s)
             i == CHOOSE j \in 1..Len(s) : s[j] = m
         IN <<m>> \o Ascending(RemoveAt(s, i))

sort_unstable_skipped(v) == v

\* slice::sort_unstable on bytes
sort_unstable(v) == Ascending(v)

\* heapless::Vec::resize(new_len, value): truncates or pads
Resize(v, new_len, value) ==
    IF new_len > Len(v)
    THEN v \o [i \in 1..(new_len - Len(v)) |-> value]
    ELSE SubSeq(v, 1, new_len)

----------------------------------------------------------------------------
(* Info page handlers (mod info_table) *)

\* Vec::from_slice(..).unwrap() / extend_from_slice(..).unwrap() into the
\* response Vec: a panic past its capacity
Response(bytes) == IF Len(bytes) > DISPATCH_LONG_RET_LEN THEN Panic ELSE Ok(bytes)

protocol_version(input, ctx) == Response(ctx.meta.protocol_version)

FirmwareInfoParamTryFrom(value) ==
    CASE value = 0 -> Ok("Vendor")
      [] value = 1 -> Ok("Version")
      [] value = 2 -> Ok("DeviceName")
      [] OTHER -> Err(InvalidValue(0))

firmware_info_swapped(input, ctx) ==
    IF Len(input) < 1 THEN Panic
    ELSE LET info == FirmwareInfoParamTryFrom(input[1])
         IN IF info.tag = "Err" THEN info
            ELSE Ok(CASE info.val = "Vendor" -> ctx.meta.firmware_vendor
                      [] info.val = "Version" -> ctx.meta.device_name
                      [] info.val = "DeviceName" -> ctx.meta.firmware_version)

firmware_info(input, ctx) ==
    IF Len(input) < 1 THEN Panic
    ELSE LET info == FirmwareInfoParamTryFrom(input[1])
         IN IF info.tag = "Err" THEN info
            ELSE Ok(CASE info.val = "Vendor" -> ctx.meta.firmware_vendor
                      [] info.val = "Version" -> ctx.meta.firmware_version
                      [] info.val = "DeviceName" -> ctx.meta.device_name)

supported_fn_pages(input, ctx) ==
    IF Len(input) < 1 THEN Panic
    ELSE LET start == input[1]
             pages == sort_unstable(MapKeys(ctx.table))
             element_list == SliceFrom(pages, start)
         IN IF ~element_list.some THEN Err(InvalidValue(0))
            ELSE Response(<<Len(element_list.value) % 256, 0>> \o element_list.value)

supported_fns(input, ctx) ==
    IF Len(input) < 2 THEN Panic
    ELSE LET page == MapGet(ctx.table, input[1])
             start == input[2]
         IN IF ~page.some THEN Err(UnsupportedFunction)
            ELSE LET functions == sort_unstable(MapKeys(page.value))
                     element_list == SliceFrom(functions, start)
                 IN IF ~element_list.some THEN Err(InvalidValue(0))
                    ELSE Response(<<Len(element_list.value) % 256, 0>>
                                  \o element_list.value)

\* the function pointers a table entry can hold
DispatchFn ==
    {"protocol_version", "firmware_info", "supported_fn_pages", "supported_fns"}

\* func(data, ctx)
Invoke(func, data, ctx) ==
    CASE func = "protocol_version" -> protocol_version(data, ctx)
      [] func = "firmware_info" -> firmware_info(data, ctx)
      [] func = "supported_fn_pages" -> supported_fn_pages(data, ctx)
      [] func = "supported_fns" -> supported_fns(data, ctx)

----------------------------------------------------------------------------
(* Dispatch *)

Lookup_fallthrough(t, page, id) ==
    LET fn_page == MapGet(t, page)
    IN IF ~fn_page.some
       THEN (IF t = <<>> THEN None ELSE MapGet(t[1].value, id))
       ELSE MapGet(fn_page.value, id)

\* self.table.get(&page).and_then(|fn_page| fn_page.get(&id))
Lookup(t, page, id) ==
    LET fn_page == MapGet(t, page)
    IN IF ~fn_page.some THEN None ELSE MapGet(fn_page.value, id)

DataLenOk_exclusive(data) ==
    Len(data) > DISPATCH_SHORT_RET_LEN /\ Len(data) <= DISPATCH_LONG_RET_LEN

DataLenOk_unbounded(data) == Len(data) >= DISPATCH_SHORT_RET_LEN

\* the assertion of dispatch_raw
DataLenOk(data) ==
    Len(data) >= DISPATCH_SHORT_RET_LEN /\ Len(data) <= DISPATCH_LONG_RET_LEN

dispatch_raw(self, page, id, data) ==
    IF ~DataLenOk(data) THEN Panic
    ELSE LET func == Lookup(self.table, page, id)
         IN IF ~func.some THEN Err(UnsupportedFunction)
            ELSE Invoke(func.value, data, [table |-> self.table, meta |-> self.meta])

\* the handlers a dispatch_raw call runs
dispatch_raw_calls(self, page, id, data) ==
    IF ~DataLenOk(data) THEN <<>>
    ELSE LET func == Lookup(self.table, page, id)
         IN IF ~func.some THEN <<>> ELSE <<func.value>>

\* Default::default(): the info page, its four functions inserted in id order
DefaultInfoPage ==
    << Entry(INFO_VERSION, "protocol_version"),
       Entry(INFO_FIRMWARE_INFO, "firmware_info"),
       Entry(INFO_SUPPORTED_FUNCTION_PAGES, "supported_fn_pages"),
       Entry(INFO_SUPPORTED_FUNCTIONS, "supported_fns") >>

DefaultTable == << Entry(INFO_FUNCTION_PAGE, DefaultInfoPage) >>

\* b"Unspecified Vendor", b"Unspecified Version", b"Unspecified Name"
DefaultMeta ==
    [ protocol_version |-> PROTOCOL_VERSION,
      firmware_vendor |-> <<85, 110, 115, 112, 101, 99, 105, 102, 105, 101, 100,
                            32, 86, 101, 110, 100, 111, 114>>,
      firmware_version |-> <<85, 110, 115, 112, 101, 99, 105, 102, 105, 101, 100,
                             32, 86, 101, 114, 115, 105, 111, 110>>,
      device_name |-> <<85, 110, 115, 112, 101, 99, 105, 102, 105, 101, 100,
                        32, 78, 97, 109, 101>> ]

----------------------------------------------------------------------------
(* OiReport: the wire frame (lib.rs) *)

OiReport(id, function_page, function_id, data) ==
    [id |-> id, function_page |-> function_page, function_id |-> function_id,
     data |-> data]

\* OiReport::read
read(bytes) ==
    IF Len(bytes) # 8 \/ Len(bytes) # 32 THEN Err("()")
    ELSE IF Len(bytes) >= 3
         THEN Ok(OiReport(bytes[1], bytes[2], bytes[3], SubSeq(bytes, 4, Len(bytes))))
         ELSE Err("()")

new_short(page, fn_id, data) == OiReport(OPENINPUT_SHORT_REPORT_ID, page, fn_id, data)

new_long(page, fn_id, data) == OiReport(OPENINPUT_LONG_REPORT_ID, page, fn_id, data)

Ret(v) == [tag |-> "Ret", val |-> v]

\* impl From<OiReport> for heapless::Vec<u8, 32>: both extend_from_slice calls
\* are unwrapped, so a frame longer than the capacity panics
IntoVec(src) ==
    IF 3 + Len(src.data) > 32 THEN Panic
    ELSE Ret(<<src.id, src.function_page, src.function_id>> \o src.data)

----------------------------------------------------------------------------
(* DispatchResponse::report *)

report(self, page, fn_id) ==
    IF Len(self) > DISPATCH_SHORT_RET_LEN
    THEN new_short(page, fn_id, Resize(self, DISPATCH_SHORT_RET_LEN, 0))
    ELSE new_long(page, fn_id, Resize(self, DISPATCH_LONG_RET_LEN, 0))

----------------------------------------------------------------------------
(* Error *)

ErrorId(e) ==
    CASE e.kind = "InvalidValue" -> 1
      [] e.kind = "UnsupportedFunction" -> 2
      [] e.kind = "Custom" -> 254

\* offsets (0-based) of the null bytes of the message, None when there is none
FirstNull(ascii) ==
    IF \E i \in 1..Len(ascii) : ascii[i] = 0
    THEN Some((CHOOSE i \in 1..Len(ascii) :
                  ascii[i] = 0 /\ \A j \in 1..(i - 1) : ascii[j] # 0) - 1)
    ELSE None

\* buf[..len].copy_from_slice(&ascii[..len])
CopyPrefix(buf, ascii, len) ==
    [i \in 1..Len(buf) |-> IF i <= len THEN ascii[i] ELSE buf[i]]

\* the Custom arm: the report it leaves in rep and the scratch buffer buf
SerializeCustom(e, page, id) ==
    LET rep0 == OiReport(OPENINPUT_SHORT_REPORT_ID, ERROR_FUNCTION_PAGE, ErrorId(e), <<>>)
        buf0 == [i \in 1..LONG_LEN |-> 0]
        nulls == FirstNull(e.ascii)
        rep == IF nulls.some
               THEN (IF nulls.value <= 3
                     THEN [rep0 EXCEPT !.id = OPENINPUT_SHORT_REPORT_ID]
                     ELSE rep0)
               ELSE [rep0 EXCEPT !.id = OPENINPUT_SHORT_REPORT_ID]
        len == IF nulls.some THEN nulls.value ELSE LONG_LEN - ERROR_PREFIX_LEN
        buf == CopyPrefix(buf0, e.ascii, len)
    IN [rep |-> rep, buf |-> buf]

serialize_error(e, page, id) ==
    LET o == CASE e.kind = "InvalidValue" ->
                    OiReport(OPENINPUT_SHORT_REPORT_ID, ERROR_FUNCTION_PAGE,
                             ErrorId(e), <<page, id, e.index>>)
               [] e.kind = "UnsupportedFunction" ->
                    OiReport(OPENINPUT_SHORT_REPORT_ID, ERROR_FUNCTION_PAGE,
                             ErrorId(e), <<page, id>>)
               [] e.kind = "Custom" -> SerializeCustom(e, page, id).rep
    IN IntoVec(o)

----------------------------------------------------------------------------
(* OiKeyboardReport (keyboard.rs) *)

REPORT_BUFFER_SIZE == 64

Zeros(n) == [i \in 1..n |-> 0]

\* #[derive(Default)]: every buffer zeroed
DefaultKeyboardReport ==
    [ input_short_buf |-> Zeros(8), out_short_buf |-> Zeros(8),
      input_long_buf |-> Zeros(32), out_long_buf |-> Zeros(32) ]

UsbError(e) == [kind |-> "UsbError", usb |-> e]
FuckyBuffer == [kind |-> "FuckyBuffer"]

\* impl TryFrom<u8> for KeyboardReportId
KeyboardReportIdTryFrom(value) ==
    CASE value = 2 -> Ok("Keyboard")
      [] value = 32 -> Ok("OpenInputShort")
      [] value = 33 -> Ok("OpenInputLong")
      [] OTHER -> Err("()")

Keyboard(leds) == [variant |-> "Keyboard", leds |-> leds]
OpenInput(oi) == [variant |-> "OpenInput", report |-> oi]

\* OiReport::read(..).map_err(|_| UsbError::ParseError)?, wrapped in OpenInput
ReadOpenInput(buf) ==
    LET r == read(buf)
    IN IF r.tag = "Err" THEN Err(UsbError("ParseError")) ELSE Ok(OpenInput(r.val))

\* OiKeyboardReport::pull_ep_out on what hid.pull_raw_report gave: pulled is
\* Err(e) or Ok of the ReportInfo and the temp_buf it filled.  The result is
\* the report state after the call and the value returned.
pull_ep_out(self, pulled) ==
    IF pulled.tag = "Err" THEN [self |-> self, ret |-> Err(UsbError(pulled.err))]
    ELSE LET info == pulled.val
         IN IF info.report_type \in {"Input", "Reserved"}
            THEN [self |-> self, ret |-> Err(UsbError("InvalidState"))]
            ELSE LET buf == SubSeq(info.temp_buf, 1, info.len)
                     rid == KeyboardReportIdTryFrom(info.report_id)
                 IN IF rid.tag = "Err"
                    THEN [self |-> self, ret |-> Err(UsbError("ParseError"))]
                    ELSE CASE rid.val = "Keyboard" ->
                                [self |-> self,
                                 ret |-> IF Len(buf) = 1 THEN Ok(Keyboard(buf[1]))
                                         ELSE Err(FuckyBuffer)]
                           [] rid.val = "OpenInputShort" ->
                                IF Len(buf) = 8
                                THEN [self |-> [self EXCEPT !.out_short_buf = buf],
                                      ret |-> ReadOpenInput(self.input_short_buf)]
                                ELSE [self |-> self, ret |-> Err(FuckyBuffer)]
                           [] rid.val = "OpenInputLong" ->
                                IF Len(buf) = 32
                                THEN [self |-> [self EXCEPT !.out_long_buf = buf],
                                      ret |-> ReadOpenInput(self.input_long_buf)]
                                ELSE [self |-> self, ret |-> Err(FuckyBuffer)]

----------------------------------------------------------------------------
(* Inputs *)

\* the bytes x, 2x, 3x, ... (mod 256)
Fill(n, seed) == [i \in 1..n |-> (seed * i) % 256]

PageSample == {0, 1, 128, 255}

\* the function map registered on a page
FnsFor(p) ==
    CASE p = INFO_FUNCTION_PAGE -> DefaultInfoPage
      [] p = 1 -> << Entry(9, "supported_fns"), Entry(2, "supported_fn_pages"),
                     Entry(5, "firmware_info") >>
      [] p = 128 -> << >>
      [] OTHER -> << Entry(0, "protocol_version") >>

TableOf(pages) == [i \in 1..Len(pages) |-> Entry(pages[i], FnsFor(pages[i]))]

\* every order of registration of at most MaxPages of the sample pages
PageOrders ==
    UNION { { s \in [1..k -> PageSample] :
                \A i, j \in 1..k : i # j => s[i] # s[j] } : k \in 0..MaxPages }

\* a table filled to its capacity, registered in descending order
FullPages == <<255, 128, 64, 32, 16, 2, 1, 0>>

Tables ==
    { TableOf(s) : s \in { o \in PageOrders \cup {FullPages} : Len(o) <= TABLE_CAPACITY } }

AltMeta ==
    [ protocol_version |-> <<1, 2, 3>>,
      firmware_vendor |-> << >>,
      firmware_version |-> Fill(DISPATCH_LONG_RET_LEN, 7),
      device_name |-> <<0, 255>> ]

Metas == {DefaultMeta, AltMeta}

ReqPages == PageSample \cup {2}
ReqIds == {0, 1, 2, 3, 4, 9}

PayloadLens == {4, 5, 17, 29, 30}
Payload(n, b0, b1) ==
    [i \in 1..n |-> IF i = 1 THEN b0 ELSE IF i = 2 THEN b1 ELSE 0]
Payloads ==
    { Payload(n, b0, b1) : n \in PayloadLens, b0 \in {0, 1, 2, 3, 128, 255},
                           b1 \in {0, 4, 5} }

HandlerInputs ==
    { Payload(n, b0, b1) : n \in {1, 2, 5, 29},
                           b0 \in {0, 1, 2, 3, 4, 8, 9, 128, 255}, b1 \in {0, 3, 4} }

Responses == { Fill(n, seed) : n \in 0..DISPATCH_LONG_RET_LEN, seed \in {1, 255} }

\* a 27-byte message whose first null is at offset z (none when z = 27)
CustomBuf(z, tailseed) ==
    [i \in 1..(LONG_LEN - ERROR_PREFIX_LEN) |->
        IF i - 1 < z THEN 64 + i ELSE IF i - 1 = z THEN 0 ELSE (tailseed * i) % 256]

Errors ==
    { InvalidValue(index) : index \in {0, 1, 255} }
    \cup {UnsupportedFunction}
    \cup { Custom(CustomBuf(z, t)) : z \in 0..(LONG_LEN - ERROR_PREFIX_LEN), t \in {0, 3} }

ReadBuffers == { Fill(n, seed) : n \in 0..MaxReadLen, seed \in {1, 5} }

ShortData == { Fill(DISPATCH_SHORT_RET_LEN, seed) : seed \in {0, 1, 51} }
LongData == { Fill(DISPATCH_LONG_RET_LEN, seed) : seed \in {0, 1, 51} }

----------------------------------------------------------------------------
(* State machine *)

\* Dispatch::new_raw(table, meta); Dispatch::default() is the case
\* table = DefaultTable, meta = DefaultMeta
Init ==
    /\ table \in Tables
    /\ meta \in Metas
    /\ op = "idle"
    /\ args = << >>
    /\ out = << >>
    /\ called = << >>
    /\ built = [table |-> table, meta |-> meta]
    /\ kbd = DefaultKeyboardReport

Self == [table |-> table, meta |-> meta]

DispatchRaw_clears ==
    /\ op = "idle"
    /\ \E page \in ReqPages, id \in ReqIds, data \in Payloads :
        /\ op' = "dispatch_raw"
        /\ args' = [page |-> page, id |-> id, data |-> data]
        /\ out' = dispatch_raw(Self, page, id, data)
        /\ called' = dispatch_raw_calls(Self, page, id, data)
        /\ table' = IF out'.tag = "Err" THEN << >> ELSE table
        /\ UNCHANGED <<meta, built, kbd>>

\* dispatch_raw borrows self immutably: the table and the metadata stay
DispatchRaw ==
    /\ op = "idle"
    /\ \E page \in ReqPages, id \in ReqIds, data \in Payloads :
        /\ op' = "dispatch_raw"
        /\ args' = [page |-> page, id |-> id, data |-> data]
        /\ out' = dispatch_raw(Self, page, id, data)
        /\ called' = dispatch_raw_calls(Self, page, id, data)
        /\ UNCHANGED <<table, meta, built, kbd>>

\* a handler run on its own with the dispatcher's context
CallHandler ==
    /\ op = "idle"
    /\ \E func \in DispatchFn, input \in HandlerInputs :
        /\ op' = func
        /\ args' = [input |-> input]
        /\ out' = Invoke(func, input, Self)
        /\ called' = <<func>>
        /\ UNCHANGED <<table, meta, built, kbd>>

Report ==
    /\ op = "idle"
    /\ \E self \in Responses, page \in {0, 255}, fn_id \in {1, 3} :
        /\ op' = "report"
        /\ args' = [self |-> self, page |-> page, fn_id |-> fn_id]
        /\ out' = report(self, page, fn_id)
        /\ called' = << >>
        /\ UNCHANGED <<table, meta, built, kbd>>

SerializeError ==
    /\ op = "idle"
    /\ \E e \in Errors, page \in {0, 7}, id \in {3, 255} :
        /\ op' = "serialize_error"
        /\ args' = [e |-> e, page |-> page, id |-> id]
        /\ out' = serialize_error(e, page, id)
        /\ called' = << >>
        /\ UNCHANGED <<table, meta, built, kbd>>

Read ==
    /\ op = "idle"
    /\ \E bytes \in ReadBuffers :
        /\ op' = "read"
        /\ args' = [bytes |-> bytes]
        /\ out' = read(bytes)
        /\ called' = << >>
        /\ UNCHANGED <<table, meta, built, kbd>>

\* a frame built by new_short / new_long, converted to bytes and read back
Decoded(bytes) == IF bytes.tag = "Ret" THEN read(bytes.val) ELSE Panic

EncodeDecodeShort ==
    /\ op = "idle"
    /\ \E page \in {0, 255}, fn_id \in {1, 3}, data \in ShortData :
        /\ op' = "encode_decode"
        /\ args' = [page |-> page, fn_id |-> fn_id, data |-> data]
        /\ out' = [bytes |-> IntoVec(new_short(page, fn_id, data)),
                   decoded |-> Decoded(IntoVec(new_short(page, fn_id, data)))]
        /\ called' = << >>
        /\ UNCHANGED <<table, meta, built, kbd>>

EncodeDecodeLong ==
    /\ op = "idle"
    /\ \E page \in {0, 255}, fn_id \in {1, 3}, data \in LongData :
        /\ op' = "encode_decode"
        /\ args' = [page |-> page, fn_id |-> fn_id, data |-> data]
        /\ out' = [bytes |-> IntoVec(new_long(page, fn_id, data)),
                   decoded |-> Decoded(IntoVec(new_long(page, fn_id, data)))]
        /\ called' = << >>
        /\ UNCHANGED <<table, meta, built, kbd>>

\* the call returns to the transport loop, which drops its result: one call
\* runs to completion before the next is issued
Return ==
    /\ op # "idle"
    /\ op' = "idle"
    /\ args' = << >>
    /\ out' = << >>
    /\ called' = << >>
    /\ UNCHANGED <<table, meta, built, kbd>>

\* what the transport can hand to pull_ep_out: a USB error, or a report of
\* len bytes at the head of the 64-byte temp_buf, byte 0 being its report id
ReportTypes == {"Input", "Output", "Feature", "Reserved"}

Delivered(report_type, report_id, len, seed) ==
    Ok([ report_type |-> report_type, report_id |-> report_id, len |-> len,
         temp_buf |-> [i \in 1..REPORT_BUFFER_SIZE |->
                          IF i > len THEN 0
                          ELSE IF i = 1 THEN report_id ELSE (seed * i) % 256] ])

Pulls ==
    {Err("WouldBlock")}
    \cup { Delivered(t, r, n, seed) :
              t \in ReportTypes, r \in {2, 5, 32, 33},
              n \in {0, 1, 7, 8, 9, 32, REPORT_BUFFER_SIZE}, seed \in {1, 9} }

PullEpOut ==
    /\ op = "idle"
    /\ \E pulled \in Pulls :
        /\ op' = "pull_ep_out"
        /\ args' = [pulled |-> pulled]
        /\ kbd' = pull_ep_out(kbd, pulled).self
        /\ out' = pull_ep_out(kbd, pulled).ret
        /\ called' = << >>
        /\ UNCHANGED <<table, meta, built>>

Next ==
    \/ Return
    \/ DispatchRaw
    \/ CallHandler
    \/ Report
    \/ SerializeError
    \/ Read
    \/ EncodeDecodeShort
    \/ EncodeDecodeLong

Spec == Init /\ [][Next]_vars

\* the HID class of a keyboard with the default dispatcher: the reports the
\* host sends are pulled one after the other
InitKeyboard ==
    /\ Init
    /\ table = DefaultTable
    /\ meta = DefaultMeta

NextKeyboard ==
    \/ Return
    \/ PullEpOut

SpecKeyboard == InitKeyboard /\ [][NextKeyboard]_vars

----------------------------------------------------------------------------
(* Vocabulary of the properties *)

\* the payload a handler was run on, by dispatch_raw or on its own
HandlerInput == IF op = "dispatch_raw" THEN args.data ELSE args.input

IsRegistered(page, id) ==
    \E i \in 1..Len(table) :
        /\ table[i].key = page
        /\ \E j \in 1..Len(table[i].value) : table[i].value[j].key = id

PageIsRegistered(page) == \E i \in 1..Len(table) : table[i].key = page

IsErr(r, kind) == r.tag = "Err" /\ r.err.kind = kind
IsInvalidValue(r, index) == IsErr(r, "InvalidValue") /\ r.err.index = index

RegisteredPages == { table[i].key : i \in 1..Len(table) }

\* the k-th smallest element of a set of bytes
Ranked(S, k) == CHOOSE x \in S : Cardinality({y \in S : y < x}) = k - 1

\* s is padded to width with zeros
IsZeroPadded(s, width, payload) ==
    /\ Len(payload) = width
    /\ Len(s) <= width
    /\ \A i \in 1..Len(s) : payload[i] = s[i]
    /\ \A i \in (Len(s) + 1)..width : payload[i] = 0

StartsWith(s, prefix) ==
    Len(s) >= Len(prefix) /\ SubSeq(s, 1, Len(prefix)) = prefix

\* part occurs in s at or after 0-based offset from
OccursFrom(s, part, from) ==
    \E k \in from..(Len(s) - Len(part)) : SubSeq(s, k + 1, k + Len(part)) = part

----------------------------------------------------------------------------
(* Properties *)

\* C1: a dispatch_raw call with a payload of 5..29 bytes whose page is not
\* in the table, or whose id is not in that page's function map, returns
\* Err(UnsupportedFunction) and runs no handler.
C1_UnregisteredUnsupported ==
    ( /\ op = "dispatch_raw"
      /\ Len(args.data) \in 5..29
      /\ ~IsRegistered(args.page, args.id) )
    => (IsErr(out, "UnsupportedFunction") /\ called = << >>)

C1_Witness ==
    /\ op = "dispatch_raw"
    /\ Len(args.data) = 29
    /\ PageIsRegistered(args.page)
    /\ ~IsRegistered(args.page, args.id)
    /\ Len(table) = 3
    /\ IsErr(out, "UnsupportedFunction")
    /\ called = << >>

\* C2 (as stated): on the default table every call of page 0x00, id 0x00..0x03
\* with a payload of 5..29 bytes returns Ok.
C2_AlwaysOk ==
    ( /\ op = "dispatch_raw"
      /\ table = DefaultTable
      /\ args.page = 0 /\ args.id \in 0..3
      /\ Len(args.data) \in 5..29 )
    => out.tag = "Ok"

\* C2 (amended): on the default table every call of page 0x00, id 0x00..0x03
\* with a payload of 5..29 bytes runs the registered handler and returns its
\* result: Ok when the payload is valid for the handler (any payload for id
\* 0x00, payload[0] <= 2 for 0x01, payload[0] <= 1 for 0x02, payload[0] = 0x00
\* and payload[1] <= 4 for 0x03), Err(UnsupportedFunction) only for 0x03 with
\* payload[0] an unregistered page, Err(InvalidValue(0)) otherwise.
C2_HandlerResult ==
    ( /\ op = "dispatch_raw"
      /\ table = DefaultTable
      /\ args.page = 0 /\ args.id \in 0..3
      /\ Len(args.data) \in 5..29 )
    => LET d == args.data
           valid == CASE args.id = 0 -> TRUE
                      [] args.id = 1 -> d[1] <= 2
                      [] args.id = 2 -> d[1] <= 1
                      [] args.id = 3 -> d[1] = 0 /\ d[2] <= 4
       IN /\ called = <<DefaultInfoPage[args.id + 1].value>>
          /\ valid => out.tag = "Ok"
          /\ ~valid =>
               IF args.id = 3 /\ d[1] # 0
               THEN IsErr(out, "UnsupportedFunction")
               ELSE IsInvalidValue(out, 0)

C2_Witness ==
    /\ op = "dispatch_raw"
    /\ table = DefaultTable
    /\ args.page = 0 /\ args.id = 3
    /\ Len(args.data) = 5
    /\ args.data[1] = 0 /\ args.data[2] = 4
    /\ out.tag = "Ok"

\* C3: report pads and never truncates: a response of n <= 5 bytes becomes a
\* Short frame (id 0x20, 5-byte payload), one of n > 5 bytes a Long frame
\* (id 0x21, 29-byte payload), the payload being the response followed by
\* zeros.
C3_ReportPads ==
    op = "report" =>
        LET n == Len(args.self)
        IN /\ n <= 5 => ( /\ out.id = 32
                          /\ IsZeroPadded(args.self, 5, out.data) )
           /\ n > 5 => ( /\ out.id = 33
                         /\ IsZeroPadded(args.self, 29, out.data) )

\* C4: serialize_error of InvalidValue(index) and of UnsupportedFunction gives
\* 8 bytes: 0x20, 0xFF, the error kind id (0x01, 0x02), then a 5-byte payload
\* starting with [page, id, index], resp. [page, id].
C4_ErrorFrameShort ==
    (op = "serialize_error" /\ args.e.kind \in {"InvalidValue", "UnsupportedFunction"})
    => /\ out.tag = "Ret"
       /\ Len(out.val) = 8
       /\ out.val[1] = 32
       /\ out.val[2] = 255
       /\ out.val[3] = (IF args.e.kind = "InvalidValue" THEN 1 ELSE 2)
       /\ StartsWith(SubSeq(out.val, 4, Len(out.val)),
                     IF args.e.kind = "InvalidValue"
                     THEN <<args.page, args.id, args.e.index>>
                     ELSE <<args.page, args.id>>)

\* C5: serialize_error of a Custom error picks the frame size by the offset
\* of the first null byte: offset 0..3 gives a Short frame (0x20, 8 bytes),
\* offset 4..26 or no null a Long frame (0x21, 32 bytes).
C5_CustomSizeClass ==
    (op = "serialize_error" /\ args.e.kind = "Custom")
    => LET short == \E i \in 1..4 : args.e.ascii[i] = 0
       IN /\ out.tag = "Ret"
          /\ short => (out.val[1] = 32 /\ Len(out.val) = 8)
          /\ ~short => (out.val[1] = 33 /\ Len(out.val) = 32)

\* C6: the frame serialize_error emits for a Custom error carries, after its
\* header, the message bytes that precede the first null (all 27 when there
\* is no null).
C6_CustomCarriesMessage ==
    (op = "serialize_error" /\ args.e.kind = "Custom")
    => LET a == args.e.ascii
           msg == IF \E i \in 1..Len(a) : a[i] = 0
                  THEN SubSeq(a, 1, (CHOOSE i \in 1..Len(a) :
                                       a[i] = 0 /\ \A j \in 1..(i - 1) : a[j] # 0) - 1)
                  ELSE a
       IN /\ out.tag = "Ret"
          /\ OccursFrom(out.val, msg, 3)

\* C7: read succeeds exactly on buffers of 8 or 32 bytes, returning id =
\* byte 0, function_page = byte 1, function_id = byte 2 and data = the rest;
\* on any other length it returns an error.
C7_ReadExactLengths ==
    op = "read" =>
        LET b == args.bytes
        IN IF Len(b) \in {8, 32}
           THEN /\ out.tag = "Ok"
                /\ out.val.id = b[1]
                /\ out.val.function_page = b[2]
                /\ out.val.function_id = b[3]
                /\ out.val.data = SubSeq(b, 4, Len(b))
           ELSE out.tag = "Err"

\* C8: the bytes of a frame built by new_short (new_long) are 8 (32) long and
\* read returns Ok on them with the same function_page, function_id and
\* payload.
C8_EncodeDecodeIdentity ==
    op = "encode_decode" =>
        /\ out.bytes.tag = "Ret"
        /\ Len(out.bytes.val) = Len(args.data) + 3
        /\ Len(out.bytes.val) \in {8, 32}
        /\ out.decoded.tag = "Ok"
        /\ out.decoded.val.function_page = args.page
        /\ out.decoded.val.function_id = args.fn_id
        /\ out.decoded.val.data = args.data

\* C9: firmware_info with first payload byte 0, 1, 2 returns Ok with exactly
\* the configured firmware_vendor, firmware_version, device_name; with any
\* other first byte it returns Err(InvalidValue(0)).
C9_FirmwareInfo ==
    (called = <<"firmware_info">> /\ Len(HandlerInput) >= 1)
    => LET selector == HandlerInput[1]
       IN CASE selector = 0 -> out.tag = "Ok" /\ out.val = meta.firmware_vendor
            [] selector = 1 -> out.tag = "Ok" /\ out.val = meta.firmware_version
            [] selector = 2 -> out.tag = "Ok" /\ out.val = meta.device_name
            [] OTHER -> IsInvalidValue(out, 0)

C9_Witness ==
    /\ called = <<"firmware_info">>
    /\ HandlerInput[1] = 2
    /\ meta = AltMeta
    /\ out.tag = "Ok"
    /\ out.val = <<0, 255>>

\* C10: with n pages registered in any order, supported_fn_pages with start
\* <= n returns [n - start, 0] followed by the pages at positions start..n of
\* the ascending page list, and Err(InvalidValue(0)) with start > n; the call
\* that starts where this one ended returns no further page.
C10_SupportedFnPages ==
    (called = <<"supported_fn_pages">> /\ Len(HandlerInput) >= 1)
    => LET n == Len(table)
           start == HandlerInput[1]
       IN IF start <= n
          THEN /\ out.tag = "Ok"
               /\ out.val = <<n - start, 0>>
                            \o [i \in 1..(n - start) |-> Ranked(RegisteredPages, start + i)]
               /\ supported_fn_pages(<<start + out.val[1]>>, Self) = Ok(<<0, 0>>)
          ELSE IsInvalidValue(out, 0)

C10_Witness ==
    /\ called = <<"supported_fn_pages">>
    /\ MapKeys(table) = <<255, 0, 128>>
    /\ HandlerInput[1] = 1
    /\ out.tag = "Ok"
    /\ out.val = <<2, 0, 128, 255>>

\* C11: supported_fns on payload [page, start, ...] returns
\* Err(UnsupportedFunction) when page is not registered; otherwise, with m
\* functions on the page, [m - start, 0] followed by the ids at positions
\* start..m of the ascending id list when start <= m, and
\* Err(InvalidValue(0)) when start > m.
C11_SupportedFns ==
    (called = <<"supported_fns">> /\ Len(HandlerInput) >= 2)
    => LET page == HandlerInput[1]
           start == HandlerInput[2]
       IN IF ~PageIsRegistered(page) THEN IsErr(out, "UnsupportedFunction")
          ELSE LET fns == table[CHOOSE i \in 1..Len(table) : table[i].key = page].value
                   ids == { fns[j].key : j \in 1..Len(fns) }
                   m == Len(fns)
               IN IF start <= m
                  THEN /\ out.tag = "Ok"
                       /\ out.val = <<m - start, 0>>
                                    \o [i \in 1..(m - start) |-> Ranked(ids, start + i)]
                  ELSE IsInvalidValue(out, 0)

C11_Witness ==
    /\ called = <<"supported_fns">>
    /\ Len(HandlerInput) >= 2
    /\ HandlerInput[1] = 1 /\ HandlerInput[2] = 0
    /\ MapKeys(table) = <<128, 1>>
    /\ out.tag = "Ok"
    /\ out.val = <<3, 0, 2, 5, 9>>

\* C12: dispatch_raw aborts exactly when the payload length is outside 5..29:
\* with a shorter or longer payload it aborts before any lookup, whatever the
\* page and id, and on the default table a payload of 5..29 bytes always gets
\* a Result (Ok or an Error).
C12_PanicsOnLengthOnly ==
    op = "dispatch_raw" =>
        /\ Len(args.data) \notin 5..29 => (out.tag = "Panic" /\ called = << >>)
        /\ (Len(args.data) \in 5..29 /\ table = DefaultTable)
               => out.tag \in {"Ok", "Err"}

C12_Witness ==
    /\ op = "dispatch_raw"
    /\ Len(args.data) = 30
    /\ IsRegistered(args.page, args.id)
    /\ out.tag = "Panic"
    /\ called = << >>

\* C13: after any sequence of dispatch_raw calls, successful or failing, the
\* table and the metadata are those of construction, so a request returns
\* what it returns on the dispatcher as constructed, wherever it occurs.
C13_DispatchLeavesState ==
    /\ table = built.table
    /\ meta = built.meta
    /\ op = "dispatch_raw"
           => out = dispatch_raw(built, args.page, args.id, args.data)

C13_Witness ==
    /\ op = "dispatch_raw"
    /\ IsErr(out, "InvalidValue")
    /\ Len(table) = 3
    /\ table = built.table
    /\ meta = built.meta

\* C14: when the transport delivers an Output or Feature report with id 0x20
\* and 8 bytes (id 0x21 and 32 bytes), pull_ep_out succeeds and returns the
\* OpenInput frame decoded from the bytes just received, whatever was pulled
\* before.
C14_PullDecodesReceived ==
    ( /\ op = "pull_ep_out"
      /\ args.pulled.tag = "Ok"
      /\ args.pulled.val.report_type \in {"Output", "Feature"}
      /\ \/ args.pulled.val.report_id = 32 /\ args.pulled.val.len = 8
         \/ args.pulled.val.report_id = 33 /\ args.pulled.val.len = 32 )
    => LET b == SubSeq(args.pulled.val.temp_buf, 1, args.pulled.val.len)
       IN /\ out.tag = "Ok"
          /\ out.val.variant = "OpenInput"
          /\ out.val.report.id = b[1]
          /\ out.val.report.function_page = b[2]
          /\ out.val.report.function_id = b[3]
          /\ out.val.report.data = SubSeq(b, 4, Len(b))

====
